---- MODULE Spec2Model ----
(***************************************************************************)
(* StandardPatcher (libmbp/autopatchers/standardpatcher.cpp): the rewriting *)
(* of an Android updater-script so that mount, unmount and format          *)
(* statements go through the multiboot helper, and the optional removal of *)
(* the device checks.                                                      *)
(*                                                                         *)
(* Text is modelled at the level of lexemes: a string is a sequence of     *)
(* lexemes (words, punctuation, a blank, a newline), chosen so that every  *)
(* literal the code searches for is one lexeme or a sequence of lexemes.   *)
(* The regular expressions of the source are matched over these sequences  *)
(* as the regex engine matches them over characters.                       *)
(***************************************************************************)
EXTENDS Naturals, Sequences, FiniteSets, TLC

VARIABLES
    pc,        \* position inside patchFiles
    disk,      \* content of <directory>/META-INF/com/google/android/updater-script
    contents,  \* patchFiles: contents / strContents
    lines,     \* patchFiles: lines
    device,    \* m_impl->info->device()
    readOk,    \* what FileUtils::readToMemory returned (ignored by patchFiles)
    dc,        \* what patchInfo()->deviceCheck(key) returned
    ret,       \* what patchFiles returned: "none" while it runs
    wrote,     \* FileUtils::writeFromMemory was called
    invoked,   \* history: the passes called so far, in call order
    hist,      \* history: the line vector after split and after each pass
    disk0      \* history: the file as it was when patchFiles was called

vars == <<pc, disk, contents, lines, device, readOk, dc, ret, wrote, invoked, hist, disk0>>

----------------------------------------------------------------------------
(* Lexemes *)

Q  == "\""
WS == " "
NL == "\n"

System == "system"
Cache  == "cache"
Data   == "data"

\* The placeholder of a boost::format string.
Arg1 == "%1%"

\* Mount with the call closed by a parenthesis.
Mount_Paren ==
    <<"run_program", "(", Q, "/", "update-binary-tool", Q, ",", WS,
      Q, "mount", Q, ",", WS, Q, Arg1, Q, ")", ";">>


Mount ==
    <<"run_program", "(", Q, "/", "update-binary-tool", Q, ",", WS,
      Q, "mount", Q, ",", WS, Q, Arg1, Q, "}", ";">>

\* Unmount as a busybox umount call.
Unmount_Busybox ==
    <<"run_program", "(", Q, "/", "sbin", "/", "busybox", Q, ",", WS,
      Q, "umount", Q, ",", WS, Q, Arg1, Q, "}", ";">>


Unmount ==
    <<"run_program", "(", Q, "/", "update-binary-tool", Q, ",", WS,
      Q, "unmount", Q, ",", WS, Q, Arg1, Q, "}", ";">>

Format ==
    <<"run_program", "(", Q, "/", "update-binary-tool", Q, ",", WS,
      Q, "format", Q, ",", WS, Q, Arg1, Q, "}", ";">>

\* The path literals handed to boost::format: "/system", "/cache", "/data".
SlashSystem == <<"/", "system">>
SlashCache  == <<"/", "cache">>
SlashData   == <<"/", "data">>

\* (boost::format(fmt) % arg).str(): every %1% of fmt is replaced by arg.
RECURSIVE boost_format(_, _)
boost_format(fmt, arg) ==
    IF fmt = <<>> THEN <<>>
    ELSE (IF Head(fmt) = Arg1 THEN arg ELSE <<Head(fmt)>>)
         \o boost_format(Tail(fmt), arg)

----------------------------------------------------------------------------
(* std::string::find *)

\* The lexeme tok ends with the characters of the lexeme w.
EndsWith(tok, w) == tok = w \/ (tok = "userdata" /\ w = "data")

\* line.find(needle) != std::string::npos. The empty needle is found at 0.
Find(line, needle) ==
    \E o \in 0..Len(line) :
        /\ o + Len(needle) <= Len(line)
        /\ \A k \in 1..Len(needle) :
              IF k = 1 THEN EndsWith(line[o + 1], needle[1])
              ELSE line[o + k] = needle[k]

\* Device::partition(name): the raw path of the partition, empty if unmapped.
partition(dev, name) == dev[name]

----------------------------------------------------------------------------
(* The regular expressions, matched from the start of the line (^) *)

\* The lexeme at position i, or a lexeme no text holds when i is past the end.
At(l, i) == IF i \in 1..Len(l) THEN l[i] ELSE "<end>"

\* \s* from position i (i <= Len(l) + 1): the position of the first lexeme
\* that is not a blank, Len(l) + 1 when there is none.
SkipWs(l, i) ==
    CHOOSE j \in i..(Len(l) + 1) :
        /\ \A k \in i..(j - 1) : l[k] = WS
        /\ At(l, j) # WS

\* The position of the first quote at or after i, 0 when there is none.
NextQuote(l, i) ==
    IF \E j \in i..Len(l) : l[j] = Q
    THEN CHOOSE j \in i..Len(l) : l[j] = Q /\ \A k \in i..(j - 1) : l[k] # Q
    ELSE 0

\* ^\s*name\s*\( : the position of the parenthesis, 0 when the line does not
\* start this way.
CallOpen(l, name) ==
    LET i == SkipWs(l, 1) IN
    IF At(l, i) # name THEN 0
    ELSE LET j == SkipWs(l, i + 1) IN
         IF At(l, j) = "(" THEN j ELSE 0

\* ^\s*run_program\s*\(\s*" : the position of the quote that opens the first
\* argument, 0 when the line does not start this way.
RunProgramArg(l) ==
    LET j == CallOpen(l, "run_program") IN
    IF j = 0 THEN 0
    ELSE LET k == SkipWs(l, j + 1) IN
         IF At(l, k) = Q THEN k ELSE 0

\* ^\s*run_program\s*\(\s*"[^"]*busybox"\s*,\s*"cmd".*$
BusyboxCall(l, cmd) ==
    LET k == RunProgramArg(l) IN
    /\ k # 0
    /\ LET q == NextQuote(l, k + 1) IN
       /\ q # 0
       /\ q - 1 > k
       /\ l[q - 1] = "busybox"
       /\ LET m == SkipWs(l, q + 1) IN
          /\ At(l, m) = ","
          /\ LET n == SkipWs(l, m + 1) IN
             /\ At(l, n) = Q
             /\ At(l, n + 1) = cmd
             /\ At(l, n + 2) = Q

\* ^\s*run_program\s*\(\s*"[^",]*/name".*$
PathCall(l, name) ==
    LET k == RunProgramArg(l) IN
    /\ k # 0
    /\ LET q == NextQuote(l, k + 1) IN
       /\ q # 0
       /\ q - 2 > k
       /\ l[q - 1] = name
       /\ l[q - 2] = "/"
       /\ \A x \in (k + 1)..(q - 1) : l[x] # ","

\* replaceMountLines: re1, re2, re3
mount_re1(l) == CallOpen(l, "mount") # 0
mount_re2(l) == BusyboxCall(l, "mount")
mount_re3(l) == PathCall(l, "mount")

\* replaceUnmountLines: re1, re2
unmount_re1(l) == CallOpen(l, "unmount") # 0
unmount_re2(l) == BusyboxCall(l, "umount")

\* replaceFormatLines: ^\s*format\s*\(.*$
format_re(l) == CallOpen(l, "format") # 0

\* replaceFormatLines: delete_recursive\s*\([^\)]*"<path>" , searched anywhere
\* in the line.
delete_recursive_re(l, path) ==
    \E i \in 1..Len(l) :
        /\ l[i] = "delete_recursive"
        /\ LET j == SkipWs(l, i + 1) IN
           /\ At(l, j) = "("
           /\ \E p \in (j + 1)..Len(l) :
                 /\ \A x \in (j + 1)..(p - 1) : l[x] # ")"
                 /\ l[p] = Q
                 /\ p + Len(path) + 1 <= Len(l)
                 /\ SubSeq(l, p + 1, p + Len(path)) = path
                 /\ l[p + Len(path) + 1] = Q

\* replaceFormatLines: ^\s*run_program\s*\(\s*"[^",]*/format.sh".*$
format_sh_re(l) == PathCall(l, "format.sh")

\* removeDeviceChecks: reLine
reLine(l) ==
    LET j == CallOpen(l, "assert") IN
    /\ j # 0
    /\ \E g \in (j + 1)..Len(l) :
          /\ l[g] = "getprop"
          /\ LET h == SkipWs(l, g + 1) IN
             /\ At(l, h) = "("
             /\ \E p \in (h + 1)..Len(l) :
                   l[p] \in {"ro.product.device", "ro.build.product"}

\* The replacement text of removeDeviceChecks after \1: "true" == "true" ||
Disjunct == <<Q, "true", Q, WS, "==", WS, Q, "true", Q, WS, "||", WS>>

\* MBP_regex_replace(line, MBP_regex("^(\\s*assert\\s*\\()"), "\\1" Disjunct),
\* changing line in place: the text is inserted after the match.
MBP_regex_replace(l) ==
    LET j == CallOpen(l, "assert") IN
    IF j = 0 THEN l
    ELSE SubSeq(l, 1, j) \o Disjunct \o SubSeq(l, j + 1, Len(l))

----------------------------------------------------------------------------
(* std::vector<std::string> *)

\* lines->erase(it): the vector without element it; the iterator returned
\* has the same index.
vector_erase(v, it) == SubSeq(v, 1, it - 1) \o SubSeq(v, it + 1, Len(v))

\* lines->push_back(x) in place of lines->insert(it, x).
vector_push_back(v, it, x) == Append(v, x)

\* lines->insert(it, x): x is put before element it; the iterator returned
\* has the same index.
vector_insert(v, it, x) == SubSeq(v, 1, it - 1) \o <<x>> \o SubSeq(v, it, Len(v))

\* it = lines->erase(it); it = lines->insert(it, x);
EraseInsert(v, it, x) == vector_insert(vector_erase(v, it), it, x)

----------------------------------------------------------------------------
(* The passes *)

isSystem(line, pSystem) ==
    \/ Find(line, <<System>>)
    \/ (pSystem # <<>> /\ Find(line, pSystem))

isCache(line, pCache) ==
    \/ Find(line, <<Cache>>)
    \/ (pCache # <<>> /\ Find(line, pCache))

isData(line, pData) ==
    \/ Find(line, <<Data>>)
    \/ Find(line, <<"userdata">>)
    \/ (pData # <<>> /\ Find(line, pData))

\* The chain with the data test first.
Classified_DataFirst(v, it, dev, tmpl) ==
    LET line == v[it] IN
    IF isData(line, partition(dev, Data))
       THEN EraseInsert(v, it, boost_format(tmpl, SlashData))
    ELSE IF isSystem(line, partition(dev, System))
       THEN EraseInsert(v, it, boost_format(tmpl, SlashSystem))
    ELSE IF isCache(line, partition(dev, Cache))
       THEN EraseInsert(v, it, boost_format(tmpl, SlashCache))
    ELSE v

\* The if / else-if chain shared by the three rewriters: the line that takes
\* the place of element it, inserted by erase and insert.
Classified(v, it, dev, tmpl) ==
    LET line    == v[it]
        pSystem == partition(dev, System)
        pCache  == partition(dev, Cache)
        pData   == partition(dev, Data)
    IN  IF isSystem(line, pSystem)
           THEN EraseInsert(v, it, boost_format(tmpl, SlashSystem))
        ELSE IF isCache(line, pCache)
           THEN EraseInsert(v, it, boost_format(tmpl, SlashCache))
        ELSE IF isData(line, pData)
           THEN EraseInsert(v, it, boost_format(tmpl, SlashData))
        ELSE v

isMountLine(line) == mount_re1(line) \/ mount_re2(line) \/ mount_re3(line)

RECURSIVE replaceMountLoop(_, _, _)
replaceMountLoop(v, it, dev) ==
    IF it > Len(v) THEN v
    ELSE replaceMountLoop(IF isMountLine(v[it]) THEN Classified(v, it, dev, Mount)
                          ELSE v,
                          it + 1, dev)

replaceMountLines(v, dev) == replaceMountLoop(v, 1, dev)

isUnmountLine(line) == unmount_re1(line) \/ unmount_re2(line)

RECURSIVE replaceUnmountLoop(_, _, _)
replaceUnmountLoop(v, it, dev) ==
    IF it > Len(v) THEN v
    ELSE replaceUnmountLoop(IF isUnmountLine(v[it]) THEN Classified(v, it, dev, Unmount)
                            ELSE v,
                            it + 1, dev)

replaceUnmountLines(v, dev) == replaceUnmountLoop(v, 1, dev)

\* The loop body with the "/cache" test before the "/system" test.
FormatStep_CacheFirst(v, it, dev) ==
    LET line == v[it] IN
    IF format_re(line)
       THEN Classified(v, it, dev, Format)
    ELSE IF delete_recursive_re(line, SlashCache)
       THEN EraseInsert(v, it, boost_format(Format, SlashCache))
    ELSE IF delete_recursive_re(line, SlashSystem)
       THEN EraseInsert(v, it, boost_format(Format, SlashSystem))
    ELSE IF format_sh_re(line)
       THEN EraseInsert(v, it, boost_format(Format, SlashData))
    ELSE v

\* The loop body with a format.sh line classified like a format( line.
FormatStep_ClassifyFormatSh(v, it, dev) ==
    LET line == v[it] IN
    IF format_re(line)
       THEN Classified(v, it, dev, Format)
    ELSE IF delete_recursive_re(line, SlashSystem)
       THEN EraseInsert(v, it, boost_format(Format, SlashSystem))
    ELSE IF delete_recursive_re(line, SlashCache)
       THEN EraseInsert(v, it, boost_format(Format, SlashCache))
    ELSE IF format_sh_re(line)
       THEN Classified(v, it, dev, Format)
    ELSE v

\* The body of the loop of replaceFormatLines for element it.
FormatStep(v, it, dev) ==
    LET line == v[it] IN
    IF format_re(line)
       THEN Classified(v, it, dev, Format)
    ELSE IF delete_recursive_re(line, SlashSystem)
       THEN EraseInsert(v, it, boost_format(Format, SlashSystem))
    ELSE IF delete_recursive_re(line, SlashCache)
       THEN EraseInsert(v, it, boost_format(Format, SlashCache))
    ELSE IF format_sh_re(line)
       THEN EraseInsert(v, it, boost_format(Format, SlashData))
    ELSE v

RECURSIVE replaceFormatLoop(_, _, _)
replaceFormatLoop(v, it, dev) ==
    IF it > Len(v) THEN v
    ELSE replaceFormatLoop(FormatStep(v, it, dev), it + 1, dev)

replaceFormatLines(v, dev) == replaceFormatLoop(v, 1, dev)

removeDeviceChecks(v) ==
    [i \in 1..Len(v) |-> IF reLine(v[i]) THEN MBP_regex_replace(v[i]) ELSE v[i]]

----------------------------------------------------------------------------
(* boost::split and boost::join *)

\* boost::split(lines, s, boost::is_any_of("\n")): token_compress_off, so
\* every newline ends a line and the text after the last one is a line too.
RECURSIVE split(_, _, _)
split(s, i, cur) ==
    IF i > Len(s) THEN <<cur>>
    ELSE IF s[i] = NL THEN <<cur>> \o split(s, i + 1, <<>>)
    ELSE split(s, i + 1, Append(cur, s[i]))

\* A split that drops the empty line after a final newline.
boost_split_NoLast(s) ==
    LET v == split(s, 1, <<>>) IN
    IF Len(v) > 1 /\ v[Len(v)] = <<>> THEN SubSeq(v, 1, Len(v) - 1) ELSE v


boost_split(s) == split(s, 1, <<>>)

\* boost::join(v, "\n")
RECURSIVE boost_join(_)
boost_join(v) ==
    IF v = <<>> THEN <<>>
    ELSE IF Len(v) = 1 THEN v[1]
    ELSE v[1] \o <<NL>> \o boost_join(Tail(v))

----------------------------------------------------------------------------
(* The inputs: devices and updater-scripts *)

MaxTail  == 2   \* arguments after the head of the one line of a long-line script
MaxLines == 3   \* lines of a script of short lines

DevPath == <<"/", "dev", "/", "mmcblk0p9">>

\* A device without raw partition paths, and three that map one partition.
Devices ==
    { [system |-> s, cache |-> c, data |-> d] :
        s \in {<<>>, DevPath}, c \in {<<>>, DevPath}, d \in {<<>>, DevPath} }

OnePathDevices ==
    { dev \in Devices :
        Cardinality({n \in {System, Cache, Data} : dev[n] # <<>>}) <= 1 }

Quoted(path) == <<Q>> \o path \o <<Q>>

\* How a line starts.
Heads ==
    { <<>>,
      <<"mount", "(">>,
      <<"unmount", "(">>,
      <<"format", WS, "(">>,
      <<"run_program", "(", Q, "/", "sbin", "/", "busybox", Q, ",", WS, Q, "mount", Q>>,
      <<"run_program", "(", Q, "/", "sbin", "/", "busybox", Q, ",", Q, "umount", Q>>,
      <<"run_program", "(", Q, "/", "sbin", "/", "mount", Q>>,
      <<"run_program", "(", Q, "/", "sbin", ",", "/", "mount", Q>>,
      <<"run_program", "(", Q, "/", "tmp", "/", "format.sh", Q>>,
      <<"assert", "(">>,
      <<"assert", "(", "getprop", "(", Q, "ro.product.device", Q, ")">>,
      <<"assert", WS, "(", "getprop", WS, "(", Q, "ro.build.product", Q, ")">> }

Leads == {<<>>, <<WS>>}

\* What follows the head.
Frags ==
    { Quoted(SlashSystem),
      Quoted(SlashCache),
      Quoted(SlashData),
      Quoted(<<"userdata">>),
      Quoted(DevPath),
      <<")">>,
      <<"delete_recursive", "(">> \o Quoted(SlashSystem),
      <<"delete_recursive", WS, "(">> \o Quoted(SlashCache) }

RECURSIVE TailsOf(_)
TailsOf(n) ==
    IF n = 0 THEN {<<>>}
    ELSE LET S == TailsOf(n - 1) IN S \cup {t \o f : t \in S, f \in Frags}

LongLines == {ld \o h \o t : ld \in Leads, h \in Heads, t \in TailsOf(MaxTail)}

ShortHeads ==
    { <<>>,
      <<"mount", "(">>,
      <<"run_program", "(", Q, "/", "sbin", "/", "busybox", Q, ",", Q, "umount", Q>>,
      <<"format", WS, "(">>,
      <<"run_program", "(", Q, "/", "tmp", "/", "format.sh", Q>>,
      <<"assert", "(", "getprop", "(", Q, "ro.product.device", Q, ")">> }

ShortLines == {<<>>} \cup {h \o Quoted(SlashCache) : h \in ShortHeads}

RECURSIVE ScriptsOf(_)
ScriptsOf(n) ==
    IF n = 0 THEN {<<>>}
    ELSE LET S == ScriptsOf(n - 1) IN S \cup {Append(sc, l) : sc \in S, l \in ShortLines}

\* The text of a file whose lines are sc: a newline between two lines.
RECURSIVE Text(_)
Text(sc) ==
    IF Len(sc) = 1 THEN sc[1]
    ELSE sc[1] \o <<NL>> \o Text(Tail(sc))

\* A script is one long line, or up to MaxLines short lines. A file always
\* splits into at least one line.
Scripts == {<<l>> : l \in LongLines} \cup (ScriptsOf(MaxLines) \ {<<>>})

----------------------------------------------------------------------------
(* patchFiles *)

Init ==
    /\ pc = "begin"
    /\ \E sc \in Scripts : disk = Text(sc)
    /\ device \in OnePathDevices
    /\ contents = <<>>
    /\ lines = <<>>
    /\ readOk = FALSE
    /\ dc = FALSE
    /\ ret = "none"
    /\ wrote = FALSE
    /\ invoked = <<>>
    /\ hist = <<>>
    /\ disk0 = disk

\* FileUtils::readToMemory(directory + "/" + UpdaterScript, &contents): its
\* result is not looked at; contents stays empty when it fails.
ReadToMemory ==
    /\ pc = "begin"
    /\ \E ok \in BOOLEAN :
          /\ readOk' = ok
          /\ contents' = IF ok THEN disk ELSE <<>>
    /\ pc' = "read"
    /\ UNCHANGED <<disk, lines, device, dc, ret, wrote, invoked, hist, disk0>>

Split ==
    /\ pc = "read"
    /\ lines' = boost_split(contents)
    /\ hist' = <<lines'>>
    /\ pc' = "split"
    /\ UNCHANGED <<disk, contents, device, readOk, dc, ret, wrote, invoked, disk0>>

ReplaceMountLines ==
    /\ pc = "split"
    /\ lines' = replaceMountLines(lines, device)
    /\ invoked' = Append(invoked, "mount")
    /\ hist' = Append(hist, lines')
    /\ pc' = "mounted"
    /\ UNCHANGED <<disk, contents, device, readOk, dc, ret, wrote, disk0>>

ReplaceUnmountLines ==
    /\ pc = "mounted"
    /\ lines' = replaceUnmountLines(lines, device)
    /\ invoked' = Append(invoked, "unmount")
    /\ hist' = Append(hist, lines')
    /\ pc' = "unmounted"
    /\ UNCHANGED <<disk, contents, device, readOk, dc, ret, wrote, disk0>>

ReplaceFormatLines ==
    /\ pc = "unmounted"
    /\ lines' = replaceFormatLines(lines, device)
    /\ invoked' = Append(invoked, "format")
    /\ hist' = Append(hist, lines')
    /\ pc' = "formatted"
    /\ UNCHANGED <<disk, contents, device, readOk, dc, ret, wrote, disk0>>

\* The test without the negation.
RunsRemoveDeviceChecks_Inverted(deviceCheck) == deviceCheck

\* if (!deviceCheck(key)) removeDeviceChecks(&lines): whether the pass runs
\* for what deviceCheck returned.
RunsRemoveDeviceChecks(deviceCheck) == ~deviceCheck

DeviceCheck ==
    /\ pc = "formatted"
    /\ \E b \in BOOLEAN :
          /\ dc' = b
          /\ IF RunsRemoveDeviceChecks(b)
             THEN /\ lines' = removeDeviceChecks(lines)
                  /\ invoked' = Append(invoked, "strip")
             ELSE /\ lines' = lines
                  /\ invoked' = invoked
    /\ hist' = Append(hist, lines')
    /\ pc' = "checked"
    /\ UNCHANGED <<disk, contents, device, readOk, ret, wrote, disk0>>

\* strContents = boost::join(lines, "\n"); contents.assign(...);
\* FileUtils::writeFromMemory(...); return true;
JoinAndWrite ==
    /\ pc = "checked"
    /\ contents' = boost_join(lines)
    /\ disk' = contents'
    /\ wrote' = TRUE
    /\ ret' = "true"
    /\ pc' = "done"
    /\ UNCHANGED <<lines, device, readOk, dc, invoked, hist, disk0>>

Next ==
    \/ ReadToMemory
    \/ Split
    \/ ReplaceMountLines
    \/ ReplaceUnmountLines
    \/ ReplaceFormatLines
    \/ DeviceCheck
    \/ JoinAndWrite

Spec == Init /\ [][Next]_vars

\* StandardPatcher::error(): always the default PatcherError, no error.
error == "NoError"

----------------------------------------------------------------------------
(* What the claims speak of *)

\* The helper invocation for operation op and mount point path, spelled out.
Helper(op, path) ==
    <<"run_program", "(", Q, "/", "update-binary-tool", Q, ",", WS,
      Q, op, Q, ",", WS, Q>> \o path \o <<Q, "}", ";">>

Points == {SlashSystem, SlashCache, SlashData}

Templates == {Helper(op, p) : op \in {"mount", "unmount", "format"}, p \in Points}

\* The line vector before and after the k-th pass (k = 1 mount, 2 unmount,
\* 3 format, 4 the device-check step).
Ran(k)    == Len(hist) >= k + 1
Before(k) == hist[k]
After(k)  == hist[k + 1]
PassOp(k) == <<"mount", "unmount", "format">>[k]

\* The line mentions the partition: its word, or its non-empty raw path.
Mentions(l, name) ==
    \/ \E i \in 1..Len(l) : l[i] = name \/ (name = Data /\ l[i] = "userdata")
    \/ (device[name] # <<>> /\ Find(l, device[name]))

\* The line with the disjunct put right after the parenthesis that opens the
\* assert.
WithDisjunct(l) ==
    LET j == CHOOSE x \in 1..Len(l) : l[x] = "(" /\ \A y \in 1..(x - 1) : l[y] # "("
    IN  SubSeq(l, 1, j)
        \o <<Q, "true", Q, WS, "==", WS, Q, "true", Q, WS, "||", WS>>
        \o SubSeq(l, j + 1, Len(l))

\* The line matches a pattern of the k-th pass.
Qualifies(k, l) ==
    CASE k = 1 -> isMountLine(l)
      [] k = 2 -> isUnmountLine(l)
      [] k = 3 -> \/ format_re(l)
                  \/ delete_recursive_re(l, SlashSystem)
                  \/ delete_recursive_re(l, SlashCache)
                  \/ format_sh_re(l)
      [] k = 4 -> reLine(l)

----------------------------------------------------------------------------
\* C1: after replaceMountLines, every line that was a mount line and mentions
\* system, else cache, else data is, at the same index, exactly the mount
\* helper invocation for /system, /cache, /data; a mount line that mentions
\* none of the three is unchanged.
C1_MountTemplate ==
    Ran(1) =>
        \A i \in 1..Len(Before(1)) :
            LET l == Before(1)[i]
                o == After(1)[i]
            IN  isMountLine(l) =>
                    IF Mentions(l, System) THEN o = Helper("mount", SlashSystem)
                    ELSE IF Mentions(l, Cache) THEN o = Helper("mount", SlashCache)
                    ELSE IF Mentions(l, Data) THEN o = Helper("mount", SlashData)
                    ELSE o = l

\* A busybox or /sbin/mount line that names only the data partition, by the
\* raw path of the device, has been replaced by the /data invocation.
C1_Witness ==
    /\ pc = "mounted"
    /\ \E i \in 1..Len(Before(1)) :
          /\ ~mount_re1(Before(1)[i])
          /\ isMountLine(Before(1)[i])
          /\ ~Find(Before(1)[i], <<Data>>)
          /\ After(1)[i] = Helper("mount", SlashData)

\* C2: in each of the three rewriters a qualifying line (for the format pass:
\* a format( line) that mentions system gets /system whatever else it
\* mentions, one that mentions cache and not system gets /cache; a line with
\* both "system" and "data" gets /system and never /data; a partition without
\* raw path is matched by its word only.
C2_Precedence ==
    \A k \in 1..3 :
        Ran(k) =>
            \A i \in 1..Len(Before(k)) :
                LET l == Before(k)[i]
                    o == After(k)[i]
                    q == IF k = 3 THEN format_re(l) ELSE Qualifies(k, l)
                    word(w) == \E x \in 1..Len(l) : l[x] = w
                IN  q =>
                      /\ Mentions(l, System) => o = Helper(PassOp(k), SlashSystem)
                      /\ (Mentions(l, Cache) /\ ~Mentions(l, System))
                            => o = Helper(PassOp(k), SlashCache)
                      /\ (word(System) /\ word(Data))
                            => (o = Helper(PassOp(k), SlashSystem)
                                /\ o # Helper(PassOp(k), SlashData))
                      /\ \A n \in {System, Cache, Data} :
                            (device[n] = <<>> /\ ~word(n) /\ ~(n = Data /\ word("userdata")))
                                => o # Helper(PassOp(k), <<"/", n>>)

\* A format( line with "/data" and then "/system" has become the /system
\* invocation, on a device whose system partition has no raw path.
C2_Witness ==
    /\ pc = "formatted"
    /\ device[System] = <<>>
    /\ \E i \in 1..Len(Before(3)) :
          /\ format_re(Before(3)[i])
          /\ Find(Before(3)[i], Quoted(SlashData) \o Quoted(SlashSystem))
          /\ After(3)[i] = Helper("format", SlashSystem)

----------------------------------------------------------------------------
\* C4 as stated: every line read that contains delete_recursive( with a
\* "/system" (a "/cache") argument is, after the format pass, the format
\* helper invocation for /system (/cache), whatever else it contains.
C4_AsStated ==
    Ran(3) =>
        \A i \in 1..Len(hist[1]) :
            /\ delete_recursive_re(hist[1][i], SlashSystem)
                  => After(3)[i] = Helper("format", SlashSystem)
            /\ delete_recursive_re(hist[1][i], SlashCache)
                  => After(3)[i] = Helper("format", SlashCache)

\* C4, amended: a line read that contains delete_recursive( with a "/system"
\* or "/cache" argument and is a mount (unmount) line becomes the mount
\* (unmount) helper invocation; any other such line becomes a format helper
\* invocation, for every device: /system for a "/system" argument; /cache for
\* a "/cache" argument unless the line also has a delete_recursive "/system"
\* argument, or starts with format( and mentions system.
C4_DeleteRecursive ==
    Ran(3) =>
        \A i \in 1..Len(hist[1]) :
            LET l == hist[1][i]
                o == After(3)[i]
                sys == delete_recursive_re(l, SlashSystem)
                cch == delete_recursive_re(l, SlashCache)
            IN  (sys \/ cch) =>
                    IF isMountLine(l) THEN o \in {Helper("mount", p) : p \in Points}
                    ELSE IF isUnmountLine(l) THEN o \in {Helper("unmount", p) : p \in Points}
                    ELSE IF sys THEN o = Helper("format", SlashSystem)
                    ELSE IF format_re(l) /\ Mentions(l, System)
                         THEN o = Helper("format", SlashSystem)
                    ELSE o = Helper("format", SlashCache)

\* A line that is not a format( line and has delete_recursive("/cache") has
\* become the /cache format invocation on a device that maps a raw path.
C4_Witness ==
    /\ pc = "formatted"
    /\ \E n \in {System, Cache, Data} : device[n] # <<>>
    /\ \E i \in 1..Len(hist[1]) :
          /\ delete_recursive_re(hist[1][i], SlashCache)
          /\ ~format_re(hist[1][i])
          /\ Find(hist[1][i], DevPath)
          /\ After(3)[i] = Helper("format", SlashCache)

\* C5 as stated: replaceFormatLines turns every run_program line whose first
\* argument ends in /format.sh into the /data format invocation, whatever
\* else is on the line.
C5_AsStated ==
    Ran(3) =>
        \A i \in 1..Len(Before(3)) :
            format_sh_re(Before(3)[i]) => After(3)[i] = Helper("format", SlashData)

\* C5, amended: replaceFormatLines turns every run_program line whose first
\* argument ends in /format.sh into the /data format invocation, for every
\* device and whatever partition words the line holds, unless the line also
\* contains delete_recursive( with a "/system" or "/cache" argument: then it
\* becomes the /system invocation, or else the /cache one.
C5_FormatSh ==
    Ran(3) =>
        \A i \in 1..Len(Before(3)) :
            LET l == Before(3)[i]
                o == After(3)[i]
            IN  format_sh_re(l) =>
                    IF delete_recursive_re(l, SlashSystem)
                       THEN o = Helper("format", SlashSystem)
                    ELSE IF delete_recursive_re(l, SlashCache)
                       THEN o = Helper("format", SlashCache)
                    ELSE o = Helper("format", SlashData)

\* A format.sh line that holds "/system" and the raw path of the cache
\* partition, and no delete_recursive, has become the /data invocation.
C5_Witness ==
    /\ pc = "formatted"
    /\ device[Cache] # <<>>
    /\ \E i \in 1..Len(Before(3)) :
          /\ format_sh_re(Before(3)[i])
          /\ Find(Before(3)[i], <<System>>)
          /\ Find(Before(3)[i], device[Cache])
          /\ After(3)[i] = Helper("format", SlashData)

----------------------------------------------------------------------------
\* C6: every pass keeps the number of lines, and the line at each index after
\* the pass is the line that was there or a rewrite of it (a helper
\* invocation of that pass, or the line with the disjunct); a line that
\* matches no pattern of the pass is unchanged.
C6_Positional ==
    \A k \in 1..4 :
        Ran(k) =>
            /\ Len(After(k)) = Len(Before(k))
            /\ \A i \in 1..Len(Before(k)) :
                  LET l == Before(k)[i]
                      o == After(k)[i]
                  IN  /\ \/ o = l
                         \/ k <= 3 /\ Qualifies(k, l)
                                   /\ o \in {Helper(PassOp(k), p) : p \in Points}
                         \/ k = 4 /\ Qualifies(k, l) /\ o = WithDisjunct(l)
                      /\ ~Qualifies(k, l) => o = l

\* A script of three lines whose first and last line have been rewritten
\* by the format pass while the one between them is unchanged.
C6_Witness ==
    /\ pc = "formatted"
    /\ Len(lines) = 3
    /\ Before(3)[1] # After(3)[1]
    /\ Before(3)[2] = After(3)[2]
    /\ Before(3)[3] # After(3)[3]
    /\ After(3)[1] \in Templates
    /\ After(3)[3] \in Templates

\* No line read from the file matches a pattern of any pass.
NothingQualifies == \A i \in 1..Len(hist[1]) : \A k \in 1..4 : ~Qualifies(k, hist[1][i])

\* C7: when the file was read and none of its lines matches a pattern of any
\* pass, what is written is what was read, for both answers of deviceCheck.
C7_RoundTrip ==
    (pc = "done" /\ readOk /\ NothingQualifies) => (disk = disk0 /\ contents = disk0)

\* A file of three lines, the last two empty (the text ends in two
\* newlines), has been written back unchanged.
C7_Witness ==
    /\ pc = "done"
    /\ readOk
    /\ NothingQualifies
    /\ Len(disk0) >= 2
    /\ disk0[Len(disk0)] = NL
    /\ disk0[Len(disk0) - 1] = NL
    /\ disk0[1] # NL
    /\ disk = disk0

\* C8 as stated: after a failed read no pass is called, nothing is written,
\* and patchFiles does not return true with error() no error.
C8_ReadFailure ==
    (pc # "begin" /\ ~readOk) =>
        /\ invoked = <<>>
        /\ ~wrote
        /\ disk = disk0
        /\ ~(ret = "true" /\ error = "NoError")

\* C9 as stated: removeDeviceChecks applied to its own output changes nothing.
C9_Idempotent ==
    (pc = "checked" /\ ~dc) => removeDeviceChecks(lines) = lines

\* The three statement rewriters, one after the other.
Rewriters(v) == replaceFormatLines(replaceUnmountLines(replaceMountLines(v, device), device), device)

\* C10: the passes are called in the order mount, unmount, format, strip;
\* each line is changed by at most one pass; a line put in by a rewriter
\* matches no pattern of any pass; every line of the result is the line read,
\* one of the nine helper invocations, or the assert line read with the
\* disjunct; the three rewriters applied to their own output change nothing.
C10_Sequencing ==
    /\ \E n \in 0..4 : invoked = SubSeq(<<"mount", "unmount", "format", "strip">>, 1, n)
    /\ \A k \in 1..3 : Ran(k) => Len(invoked) >= k
    /\ \A k \in 1..4 :
          Ran(k) =>
              \A i \in 1..Len(hist[1]) :
                  /\ Cardinality({j \in 1..k : hist[j][i] # hist[j + 1][i]}) <= 1
                  /\ (k <= 3 /\ Before(k)[i] # After(k)[i])
                        => \A j \in 1..4 : ~Qualifies(j, After(k)[i])
    /\ Ran(4) =>
          \A i \in 1..Len(hist[1]) :
              \/ After(4)[i] = hist[1][i]
              \/ After(4)[i] \in Templates
              \/ reLine(hist[1][i]) /\ After(4)[i] = WithDisjunct(hist[1][i])
    /\ Ran(3) => Rewriters(After(3)) = After(3)

\* patchFiles has returned for a script in which one line was replaced by
\* the mount pass, one by the unmount pass, and one assert line got the
\* disjunct.
C10_Witness ==
    /\ pc = "done"
    /\ invoked = <<"mount", "unmount", "format", "strip">>
    /\ \E a, b, c \in 1..Len(lines) :
          /\ hist[1][a] # hist[2][a]
          /\ hist[2][b] # hist[3][b]
          /\ hist[4][c] # hist[5][c]

====
